---- MODULE Spec2Model ----
(***************************************************************************)
(* A model of src/modules/rlm_json/rlm_json.c: the jpath cache built by    *)
(* mod_map_proc_instantiate, the map walk of mod_map_proc with its value   *)
(* callback _json_map_proc_get_value, and the attribute accumulator of     *)
(* json_encode_xlat.                                                       *)
(*                                                                         *)
(* Pointers are modelled as sequences: NULL is the empty sequence, a       *)
(* pointer to x is <<x>>. Cache entries live in "heap", a sequence of      *)
(* [jpath, next] records addressed by index; index 0 is the NULL entry     *)
(* pointer and index 1 is the entry pre-allocated by the map_proc          *)
(* framework (inst_size passed to map_proc_register).                      *)
(***************************************************************************)
EXTENDS Integers, Sequences, FiniteSets, TLC

VARIABLES maps, src, inputs, inst, call, enc, val, gv

vars == <<maps, src, inputs, inst, call, enc, val, gv>>

(***************************************************************************)
(* Bounds of the model.                                                    *)
(***************************************************************************)
MaxMaps == 2
MaxMatches == 2
NumCalls == 2
MaxTokens == 3
MaxGroup == 2
MaxPath == 3

NULL == <<>>

RECURSIVE SeqsUpTo(_, _)
SeqsUpTo(S, n) ==
  IF n = 0 THEN {<<>>}
  ELSE LET shorter == SeqsUpTo(S, n - 1)
       IN  shorter \cup {Append(s, x) : s \in {q \in shorter : Len(q) = n - 1}, x \in S}

(***************************************************************************)
(* External collaborators: the jpath compiler and evaluator, the json-c    *)
(* tokener, the template expander.                                         *)
(***************************************************************************)

\* Texts of jpath expressions used as right-hand sides: every element of the
\* member a, its first element, a member no document has, a syntax error.
JpathTexts == {"$.a[*]", "$.a[0]", "$.b", "$["}

\* The lexical tokens of expression texts: the root, member selectors in dot
\* and in bracket notation, subscripts, and a subscript that is not closed.
PathTokens == {"$", ".a", ".b", "['a']", "[*]", "[0]", "["}

\* The bytes a token takes in the text.
TokenLen(tok) ==
  CASE tok \in {"$", "["}       -> 1
    [] tok \in {".a", ".b"}     -> 2
    [] tok \in {"[*]", "[0]"}   -> 3
    [] OTHER                    -> 5

\* The node a selector token compiles to.
TokenNode(tok) ==
  CASE tok \in {".a", "['a']"} -> "a"
    [] tok = ".b"              -> "b"
    [] OTHER                   -> tok

\* The selectors after the root: i is the next token, off the bytes consumed.
RECURSIVE ParseSelectors(_, _, _, _)
ParseSelectors(in, i, off, nodes) ==
  IF i > Len(in) THEN [slen |-> off, head |-> nodes, err |-> ""]
  ELSE IF in[i] = "$" THEN [slen |-> -off, head |-> NULL, err |-> "Unexpected root"]
  ELSE IF in[i] = "[" THEN [slen |-> -off, head |-> NULL, err |-> "Missing selector terminator"]
  ELSE ParseSelectors(in, i + 1, off + TokenLen(in[i]), Append(nodes, TokenNode(in[i])))

\* fr_jpath_parse(ctx, &head, in, inlen) on a text given as its tokens: the
\* node list of a well formed expression and the bytes consumed, or a NULL
\* head, minus the offset of the syntax error and the error message.
fr_jpath_parse_tokens(in) ==
  IF in = <<>> THEN [slen |-> 0, head |-> NULL, err |-> "Empty expression"]
  ELSE IF in[1] # "$" THEN [slen |-> 0, head |-> NULL, err |-> "Expected root node"]
  ELSE ParseSelectors(in, 2, 1, <<"$">>)

\* The tokens of the texts the maps use.
Lex(text) ==
  CASE text = "$.a[*]" -> <<"$", ".a", "[*]">>
    [] text = "$.a[0]" -> <<"$", ".a", "[0]">>
    [] text = "$.b"    -> <<"$", ".b">>
    [] text = "$["     -> <<"$", "[">>
    [] OTHER           -> <<>>

\* fr_jpath_parse(ctx, &head, in, inlen) on a text.
fr_jpath_parse(text) == fr_jpath_parse_tokens(Lex(text))

\* Leaves a document can hold: a number, a string, a JSON null.
Leaves == {"5", "hello", "null"}

\* Document text as a sequence of lexical tokens: "{" leaf ... "}" is the
\* object {"a": [leaf, ...]}.
ValidTexts == {<<"{">> \o s \o <<"}">> : s \in SeqsUpTo(Leaves, MaxMatches)}
JsonTexts == {<<>>, <<"{", "5">>} \cup ValidTexts

\* The value box list handed to the map processor: no head box at all, boxes
\* that cannot be concatenated to a string, or boxes holding a text.
JsonInputs ==
  {[head |-> FALSE, concat |-> FALSE, str |-> <<>>],
   [head |-> TRUE, concat |-> FALSE, str |-> <<>>]}
  \cup {[head |-> TRUE, concat |-> TRUE, str |-> s] : s \in JsonTexts}

\* json_tokener_parse_ex(tok, str, len): a pointer to the root object, or NULL
\* for a text that is not a complete object.
json_tokener_parse_ex(str) ==
  IF Len(str) >= 2 /\ str[1] = "{" /\ str[Len(str)] = "}"
  THEN <<[a |-> SubSeq(str, 2, Len(str) - 1)]>>
  ELSE NULL

\* The leaves a compiled expression selects in a document, in match order.
JpathMatches(root, jpath) ==
  CASE jpath = <<"$", "a", "[*]">> -> root[1].a
    [] jpath = <<"$", "a", "[0]">> -> IF root[1].a = <<>> THEN <<>> ELSE <<root[1].a[1]>>
    [] OTHER                  -> <<>>

\* Conversion of one JSON leaf to a value box of the destination type.
Coercible(leaf, dst_type) == dst_type = "string" \/ leaf # "hello"
LeafToBox(leaf, dst_type) ==
  [type |-> IF leaf = "null" THEN "null" ELSE dst_type, datum |-> leaf]

\* fr_jpath_evaluate_leaf(request, &head, dst_type, da, root, jpath): the
\* number of matches and their boxes, or -1 when a leaf cannot be converted.
fr_jpath_evaluate_leaf(dst_type, root, jpath) ==
  LET m == JpathMatches(root, jpath)
  IN  IF \E i \in 1..Len(m) : ~Coercible(m[i], dst_type)
      THEN [ret |-> -1, head |-> <<>>]
      ELSE [ret |-> Len(m), head |-> [i \in 1..Len(m) |-> LeafToBox(m[i], dst_type)]]

\* fr_value_box_steal(vp, &vp->data, value): fails on a box of type null.
fr_value_box_steal(value) ==
  IF value.type = "null" THEN [ret |-> -1, data |-> value] ELSE [ret |-> 0, data |-> value]

\* tmpl_aexpand(request, &to_parse, request, map->rhs, ...): the expansion of
\* a dynamic right-hand side in the request, or -1.
tmpl_aexpand(rhs) ==
  CASE rhs.name = "%{Path}"     -> [ret |-> 6, out |-> "$.a[*]"]
    [] rhs.name = "%{Bad-Path}" -> [ret |-> 2, out |-> "$["]
    [] OTHER                    -> [ret |-> -1, out |-> ""]

(***************************************************************************)
(* Maps: target attribute, operator, right-hand side template.             *)
(***************************************************************************)
MapTargets ==
  {[lhs |-> [da |-> "Reply-Message", type |-> "string"], op |-> "="],
   [lhs |-> [da |-> "Session-Timeout", type |-> "uint32"], op |-> "+="]}

MapRhs ==
  {[type |-> "TMPL_TYPE_UNRESOLVED", name |-> n, vtype |-> "null"] : n \in JpathTexts}
  \cup {[type |-> "TMPL_TYPE_DATA", name |-> "$.a[0]", vtype |-> "string"],
        [type |-> "TMPL_TYPE_DATA", name |-> "5", vtype |-> "uint32"]}
  \cup {[type |-> "TMPL_TYPE_XLAT", name |-> n, vtype |-> "null"] :
          n \in {"%{Path}", "%{Bad-Path}", "%{Missing}"}}
  \cup {[type |-> "TMPL_TYPE_REGEX", name |-> "^a", vtype |-> "null"]}

Maps == {[lhs |-> t.lhs, op |-> t.op, rhs |-> r] : t \in MapTargets, r \in MapRhs}

MapLists == SeqsUpTo(Maps, MaxMaps)

\* The right-hand side kinds whose expression is compiled into the cache.
IsCached(map) == map.rhs.type \in {"TMPL_TYPE_UNRESOLVED", "TMPL_TYPE_DATA"}

\* map_list_next(maps, map): the index of the map after map (0 is NULL).
map_list_next(list, map) == IF map < Len(list) THEN map + 1 ELSE 0

(***************************************************************************)
(* mod_map_proc_instantiate: fills the cache from the maps.                *)
(* inst.pc is the position in the function, inst.map the loop variable,    *)
(* inst.cache the local "cache", inst.tail the entry whose next field the  *)
(* local "tail" points at. inst.parsed (the maps handed to fr_jpath_parse, *)
(* in order) and inst.err (which return -1 was taken) are history.         *)
(* HAVE_JSON_OBJECT_GET_INT64 is defined by every supported json-c, so the *)
(* 64 bit check of lines 301-307 is compiled out.                          *)
(***************************************************************************)
ZeroEntry == [jpath |-> NULL, next |-> 0]

InstInit ==
  [pc |-> "start", map |-> 0, heap |-> <<ZeroEntry>>, cache |-> 1, tail |-> 1,
   parsed |-> <<>>, err |-> "none"]

\* Line 291: no source template.
InstantiateNoSrc ==
  /\ inst.pc = "start"
  /\ ~src
  /\ inst' = [inst EXCEPT !.pc = "fail", !.err = "nosrc"]
  /\ UNCHANGED <<maps, src, inputs, call, enc, val, gv>>

\* Lines 286-296: the locals are set, the source is present.
InstantiateEnter ==
  /\ inst.pc = "start"
  /\ src
  /\ inst' = [inst EXCEPT !.pc = "loop"]
  /\ UNCHANGED <<maps, src, inputs, call, enc, val, gv>>

\* LinkNextEntry without the test of line 348: an entry is linked behind every
\* compiled expression.
LinkNextEntry_Always(i, map) ==
  LET new == Len(i.heap) + 1
  IN  [i EXCEPT !.heap = Append([i.heap EXCEPT ![i.tail].next = new], ZeroEntry),
                !.cache = new, !.tail = new]

\* LinkNextEntry without lines 348-351: every expression is compiled into the
\* pre-allocated entry.
LinkNextEntry_Never(i, map) == i

\* Lines 348-351: a new zeroed entry is linked behind the current one when
\* the map that was just compiled is not the last map of the list.
LinkNextEntry(i, map) ==
  IF map_list_next(maps, map) # 0
  THEN LET new == Len(i.heap) + 1
       IN  [i EXCEPT !.heap = Append([i.heap EXCEPT ![i.tail].next = new], ZeroEntry),
                     !.cache = new, !.tail = new]
  ELSE i

\* ReturnSyntaxError that logs the error and goes on with the next map.
ReturnSyntaxError_Continue(i) == i

\* Lines 316-325: the error is logged, return -1.
ReturnSyntaxError(i) == [i EXCEPT !.pc = "fail", !.err = "syntax"]

\* Lines 310-327 and 329-337 on a compile failure.
InstantiateSyntaxError ==
  /\ inst.pc = "loop"
  /\ map_list_next(maps, inst.map) # 0
  /\ LET m == map_list_next(maps, inst.map)
         r == fr_jpath_parse(maps[m].rhs.name)
     IN  /\ \/ maps[m].rhs.type = "TMPL_TYPE_UNRESOLVED"
            \/ maps[m].rhs.type = "TMPL_TYPE_DATA" /\ maps[m].rhs.vtype = "string"
         /\ r.slen <= 0
         /\ inst' = ReturnSyntaxError([inst EXCEPT !.map = m,
                                                   !.heap[inst.cache].jpath = r.head,
                                                   !.parsed = Append(inst.parsed, m)])
  /\ UNCHANGED <<maps, src, inputs, call, enc, val, gv>>

\* Lines 330-333: literal data that is not a string: return -1.
InstantiateNotString ==
  /\ inst.pc = "loop"
  /\ map_list_next(maps, inst.map) # 0
  /\ LET m == map_list_next(maps, inst.map)
     IN  /\ maps[m].rhs.type = "TMPL_TYPE_DATA"
         /\ maps[m].rhs.vtype # "string"
         /\ inst' = [inst EXCEPT !.pc = "fail", !.err = "notstring", !.map = m]
  /\ UNCHANGED <<maps, src, inputs, call, enc, val, gv>>

\* Lines 310-351 on a successful compile: the expression goes into the
\* current entry, then the next entry is linked.
InstantiateCompile ==
  /\ inst.pc = "loop"
  /\ map_list_next(maps, inst.map) # 0
  /\ LET m == map_list_next(maps, inst.map)
         r == fr_jpath_parse(maps[m].rhs.name)
     IN  /\ \/ maps[m].rhs.type = "TMPL_TYPE_UNRESOLVED"
            \/ maps[m].rhs.type = "TMPL_TYPE_DATA" /\ maps[m].rhs.vtype = "string"
         /\ r.slen > 0
         /\ inst' = LinkNextEntry([inst EXCEPT !.map = m,
                                               !.heap[inst.cache].jpath = r.head,
                                               !.parsed = Append(inst.parsed, m)], m)
  /\ UNCHANGED <<maps, src, inputs, call, enc, val, gv>>

\* Lines 339-340: any other right-hand side: continue.
InstantiateSkip ==
  /\ inst.pc = "loop"
  /\ map_list_next(maps, inst.map) # 0
  /\ LET m == map_list_next(maps, inst.map)
     IN  /\ ~IsCached(maps[m])
         /\ inst' = [inst EXCEPT !.map = m]
  /\ UNCHANGED <<maps, src, inputs, call, enc, val, gv>>

\* Lines 297 and 354: the list is exhausted: return 0.
InstantiateDone ==
  /\ inst.pc = "loop"
  /\ map_list_next(maps, inst.map) = 0
  /\ inst' = [inst EXCEPT !.pc = "ok", !.map = 0]
  /\ UNCHANGED <<maps, src, inputs, call, enc, val, gv>>

(***************************************************************************)
(* _json_map_proc_get_value and its caller map_to_request.                 *)
(***************************************************************************)

\* ValueLoop that puts each new pair at the head of the list.
RECURSIVE ValueLoop_Prepends(_, _, _)
ValueLoop_Prepends(out, values, map) ==
  IF values = <<>> THEN [ret |-> 0, out |-> out]
  ELSE LET s == fr_value_box_steal(Head(values))
           vp == [da |-> map.lhs.da, op |-> map.op, data |-> s.data]
       IN  IF s.ret < 0 THEN [ret |-> -1, out |-> <<>>]
           ELSE ValueLoop_Prepends(<<vp>> \o out, Tail(values), map)

\* Lines 389-401: one pair per value box, with the map's attribute and
\* operator; a box that cannot be stolen frees the whole list.
RECURSIVE ValueLoop(_, _, _)
ValueLoop(out, values, map) ==
  IF values = <<>> THEN [ret |-> 0, out |-> out]
  ELSE LET s == fr_value_box_steal(Head(values))
           vp == [da |-> map.lhs.da, op |-> map.op, data |-> s.data]
       IN  IF s.ret < 0 THEN [ret |-> -1, out |-> <<>>]
           ELSE ValueLoop(Append(out, vp), Tail(values), map)

\* json_map_proc_get_value that reports "no match" as a failure.
json_map_proc_get_value_ZeroIsError(out, map, to_eval) ==
  LET r == fr_jpath_evaluate_leaf(map.lhs.type, to_eval.root, to_eval.jpath)
  IN  IF r.ret <= 0 THEN [ret |-> -1, out |-> <<>>]
      ELSE ValueLoop(<<>>, r.head, map)

\* json_map_proc_get_value that takes an evaluation error for "no match".
json_map_proc_get_value_IgnoresError(out, map, to_eval) ==
  LET r == fr_jpath_evaluate_leaf(map.lhs.type, to_eval.root, to_eval.jpath)
  IN  IF r.ret <= 0 THEN [ret |-> 0, out |-> <<>>]
      ELSE ValueLoop(<<>>, r.head, map)

\* Lines 368-404. The list passed in is freed first (line 377).
json_map_proc_get_value(out, map, to_eval) ==
  LET freed == <<>>
      r == fr_jpath_evaluate_leaf(map.lhs.type, to_eval.root, to_eval.jpath)
  IN  IF r.ret < 0 THEN [ret |-> -1, out |-> freed]
      ELSE IF r.ret = 0 THEN [ret |-> 0, out |-> freed]
      ELSE ValueLoop(freed, r.head, map)

\* map_to_request(request, map, func, ctx): calls func for the map's pairs
\* and, unless it failed, hands them to the request's list.
map_to_request(request, map, to_eval) ==
  LET r == json_map_proc_get_value(<<>>, map, to_eval)
  IN  IF r.ret < 0 THEN [ret |-> -1, request |-> request, added |-> 0]
      ELSE [ret |-> 0, request |-> request \o r.out, added |-> Len(r.out)]

(***************************************************************************)
(* _json_map_proc_get_value step by step. gv.given is the list the caller  *)
(* passed as out, gv.map and gv.to_eval the arguments, gv.out the list,    *)
(* gv.values the boxes of head the loop has not taken yet, gv.ret the      *)
(* value returned. History: gv.built (the pairs the loop appended).        *)
(***************************************************************************)
GetValueInit(given, map, to_eval) ==
  [pc |-> "idle", given |-> given, map |-> map, to_eval |-> to_eval, out |-> given,
   values |-> <<>>, ret |-> 0, built |-> 0]

\* The maps, the lists and the expressions the function is called with.
GetValueMaps == {m \in Maps : m.rhs.type = "TMPL_TYPE_UNRESOLVED" /\ m.rhs.name = "$.a[*]"}
GetValueIdleMap == CHOOSE m \in GetValueMaps : m.lhs.type = "string"
GetValueGiven ==
  {<<>>, <<[da |-> "Reply-Message", op |-> "=", data |-> [type |-> "string", datum |-> "old"]]>>}
GetValueToEval ==
  {[jpath |-> fr_jpath_parse(t).head, root |-> json_tokener_parse_ex(d)] :
     t \in {x \in JpathTexts : fr_jpath_parse(x).slen > 0}, d \in ValidTexts}

\* Lines 377-385: out is freed, the evaluation fails: return -1.
GetValueEvalFail ==
  /\ gv.pc = "idle"
  /\ LET r == fr_jpath_evaluate_leaf(gv.map.lhs.type, gv.to_eval.root, gv.to_eval.jpath)
     IN  /\ r.ret < 0
         /\ gv' = [gv EXCEPT !.out = <<>>, !.ret = -1, !.pc = "done"]
  /\ UNCHANGED <<maps, src, inputs, inst, call, enc, val>>

\* Lines 377-386: out is freed, nothing matches: return 0.
GetValueNoMatch ==
  /\ gv.pc = "idle"
  /\ LET r == fr_jpath_evaluate_leaf(gv.map.lhs.type, gv.to_eval.root, gv.to_eval.jpath)
     IN  /\ r.ret = 0
         /\ gv' = [gv EXCEPT !.out = <<>>, !.ret = 0, !.pc = "done"]
  /\ UNCHANGED <<maps, src, inputs, inst, call, enc, val>>

\* Lines 377-389: out is freed, the loop starts at the head of the matches.
GetValueMatched ==
  /\ gv.pc = "idle"
  /\ LET r == fr_jpath_evaluate_leaf(gv.map.lhs.type, gv.to_eval.root, gv.to_eval.jpath)
     IN  /\ r.ret > 0
         /\ gv' = [gv EXCEPT !.out = <<>>, !.values = r.head, !.pc = "loop"]
  /\ UNCHANGED <<maps, src, inputs, inst, call, enc, val>>

\* Lines 391-395: the box is stolen into a new pair, the pair is appended.
GetValueSteal ==
  /\ gv.pc = "loop"
  /\ gv.values # <<>>
  /\ LET s == fr_value_box_steal(Head(gv.values))
         vp == [da |-> gv.map.lhs.da, op |-> gv.map.op, data |-> s.data]
     IN  /\ s.ret >= 0
         /\ gv' = [gv EXCEPT !.out = Append(@, vp), !.values = Tail(@), !.built = @ + 1]
  /\ UNCHANGED <<maps, src, inputs, inst, call, enc, val>>

\* GetValueStealFail without the fr_pair_list_free(out) of line 398.
GetValueStealFail_KeepsPairs ==
  /\ gv.pc = "loop"
  /\ gv.values # <<>>
  /\ fr_value_box_steal(Head(gv.values)).ret < 0
  /\ gv' = [gv EXCEPT !.ret = -1, !.pc = "done"]
  /\ UNCHANGED <<maps, src, inputs, inst, call, enc, val>>

\* Lines 395-400: the box cannot be stolen: the pair and out are freed,
\* return -1.
GetValueStealFail ==
  /\ gv.pc = "loop"
  /\ gv.values # <<>>
  /\ fr_value_box_steal(Head(gv.values)).ret < 0
  /\ gv' = [gv EXCEPT !.out = <<>>, !.ret = -1, !.pc = "done"]
  /\ UNCHANGED <<maps, src, inputs, inst, call, enc, val>>

\* Lines 390 and 403: no box is left: return 0.
GetValueReturn ==
  /\ gv.pc = "loop"
  /\ gv.values = <<>>
  /\ gv' = [gv EXCEPT !.ret = 0, !.pc = "done"]
  /\ UNCHANGED <<maps, src, inputs, inst, call, enc, val>>

(***************************************************************************)
(* mod_map_proc, one record of locals per call. pc is the position in the  *)
(* function; json, tok, root, map, cache, rcode are the C locals (cache is *)
(* an index into inst.heap); request is the pair list of the call's        *)
(* request. History: steps (for every map the walk took up: the cache      *)
(* pointer before and after it and the expression it used, NULL if none),  *)
(* origin (the map each delivered pair came from), tok_new,                *)
(* tok_free, root_put (calls of json_tokener_new, json_tokener_free,       *)
(* json_object_put), root_live (a parsed root not yet released),           *)
(* dyn_parsed, dyn_freed (expressions compiled and freed by the call),     *)
(* exit (the way the call left the walk).                                  *)
(***************************************************************************)
CallInit ==
  [pc |-> "idle", json |-> [head |-> FALSE, concat |-> FALSE, str |-> <<>>],
   tok |-> "none", root |-> NULL, map |-> 0, cache |-> 0, rcode |-> "none",
   request |-> <<>>, steps |-> <<>>, origin |-> <<>>,
   tok_new |-> 0, tok_free |-> 0, root_put |-> 0, root_live |-> FALSE,
   dyn_parsed |-> 0, dyn_freed |-> 0, exit |-> "none"]

Step(m, before, after, jpath) ==
  [map |-> m, before |-> before, after |-> after, jpath |-> jpath]

\* InputEmpty without the length check of line 446.
InputEmpty_Never(j) == FALSE

\* Line 446: talloc_array_length(json_str) - 1 == 0.
InputEmpty(j) == Len(j.str) = 0

\* GotoFinish that returns on the spot.
GotoFinish_Returns(c, exit) ==
  [c EXCEPT !.rcode = "RLM_MODULE_FAIL", !.pc = "done", !.exit = exit]

\* rcode = RLM_MODULE_FAIL; goto finish (lines 455, 469, 486, 493, 501).
GotoFinish(c, exit) ==
  [c EXCEPT !.rcode = "RLM_MODULE_FAIL", !.pc = "finish", !.exit = exit]

\* CacheAdvance that leaves the cache pointer where it is.
CacheAdvance_Stay(c) == c.cache

\* Line 472: cache = cache->next.
CacheAdvance(c) == inst.heap[c.cache].next

\* Lines 421-435: no input box.
MapProcNullInput(t) ==
  /\ inst.pc = "ok"
  /\ call[t].pc = "idle"
  /\ \E j \in inputs :
       /\ ~j.head
       /\ call' = [call EXCEPT ![t] = [@ EXCEPT !.json = j, !.rcode = "RLM_MODULE_FAIL",
                                                !.pc = "done", !.exit = "null"]]
  /\ UNCHANGED <<maps, src, inputs, inst, enc, val, gv>>

\* Lines 437-443: the input boxes cannot be concatenated.
MapProcConcatFail(t) ==
  /\ inst.pc = "ok"
  /\ call[t].pc = "idle"
  /\ \E j \in inputs :
       /\ j.head /\ ~j.concat
       /\ call' = [call EXCEPT ![t] = [@ EXCEPT !.json = j, !.rcode = "RLM_MODULE_FAIL",
                                                !.pc = "done", !.exit = "concat"]]
  /\ UNCHANGED <<maps, src, inputs, inst, enc, val, gv>>

\* Lines 444-449: the text has length 0.
MapProcEmpty(t) ==
  /\ inst.pc = "ok"
  /\ call[t].pc = "idle"
  /\ \E j \in inputs :
       /\ j.head /\ j.concat /\ InputEmpty(j)
       /\ call' = [call EXCEPT ![t] = [@ EXCEPT !.json = j, !.rcode = "RLM_MODULE_FAIL",
                                                !.pc = "done", !.exit = "empty"]]
  /\ UNCHANGED <<maps, src, inputs, inst, enc, val, gv>>

\* Lines 451-457: the tokener is created, the text does not parse.
MapProcParseFail(t) ==
  /\ inst.pc = "ok"
  /\ call[t].pc = "idle"
  /\ \E j \in inputs :
       /\ j.head /\ j.concat /\ ~InputEmpty(j)
       /\ json_tokener_parse_ex(j.str) = NULL
       /\ call' = [call EXCEPT ![t] =
                       GotoFinish([@ EXCEPT !.json = j, !.tok = "live", !.tok_new = @ + 1,
                                            !.root = NULL, !.cache = 1], "parse")]
  /\ UNCHANGED <<maps, src, inputs, inst, enc, val, gv>>

\* Lines 421-458: the tokener is created, the text parses, the walk starts
\* with cache = proc_inst and rcode = RLM_MODULE_UPDATED.
MapProcParsed(t) ==
  /\ inst.pc = "ok"
  /\ call[t].pc = "idle"
  /\ \E j \in inputs :
       /\ j.head /\ j.concat /\ ~InputEmpty(j)
       /\ json_tokener_parse_ex(j.str) # NULL
       /\ call' = [call EXCEPT ![t] = [@ EXCEPT !.json = j, !.tok = "live", !.tok_new = @ + 1,
                                                !.root = json_tokener_parse_ex(j.str),
                                                !.root_live = TRUE, !.cache = 1,
                                                !.rcode = "RLM_MODULE_UPDATED",
                                                !.pc = "walk"]]
  /\ UNCHANGED <<maps, src, inputs, inst, enc, val, gv>>

\* WalkCached that frees the expression after use, as the dynamic branch
\* does with its own.
WalkCached_FreesEntry(t) ==
  /\ call[t].pc = "walk"
  /\ map_list_next(maps, call[t].map) # 0
  /\ LET c == call[t]
         m == map_list_next(maps, c.map)
     IN  /\ IsCached(maps[m])
         /\ c.cache # 0
         /\ LET jpath == inst.heap[c.cache].jpath
                r == map_to_request(c.request, maps[m], [jpath |-> jpath, root |-> c.root])
                next == inst.heap[c.cache].next
            IN  /\ inst' = [inst EXCEPT !.heap[c.cache].jpath = NULL]
                /\ IF r.ret < 0
                   THEN call' = [call EXCEPT ![t] =
                                   [@ EXCEPT !.map = m,
                                             !.steps = Append(@, Step(m, c.cache, c.cache, jpath)),
                                             !.rcode = "RLM_MODULE_FAIL",
                                             !.pc = "finish", !.exit = "deliver"]]
                   ELSE call' = [call EXCEPT ![t] =
                                   [@ EXCEPT !.map = m,
                                             !.steps = Append(@, Step(m, c.cache, next, jpath)),
                                             !.request = r.request,
                                             !.origin = @ \o [i \in 1..r.added |-> m],
                                             !.cache = next]]
  /\ UNCHANGED <<maps, src, inputs, enc, val, gv>>

\* Lines 459-473: a cached map. Reading cache->jpath through a NULL cache
\* pointer ends the process.
WalkCached(t) ==
  /\ call[t].pc = "walk"
  /\ map_list_next(maps, call[t].map) # 0
  /\ LET c == call[t]
         m == map_list_next(maps, c.map)
     IN  /\ IsCached(maps[m])
         /\ IF c.cache = 0
            THEN call' = [call EXCEPT ![t] = [@ EXCEPT !.map = m, !.pc = "crashed"]]
            ELSE LET jpath == inst.heap[c.cache].jpath
                     r == map_to_request(c.request, maps[m], [jpath |-> jpath, root |-> c.root])
                     next == CacheAdvance(c)
                 IN  IF r.ret < 0
                     THEN call' = [call EXCEPT ![t] =
                                     GotoFinish([@ EXCEPT !.map = m,
                                                          !.steps = Append(@, Step(m, c.cache, c.cache, jpath))],
                                                "deliver")]
                     ELSE call' = [call EXCEPT ![t] =
                                     [@ EXCEPT !.map = m,
                                               !.steps = Append(@, Step(m, c.cache, next, jpath)),
                                               !.request = r.request,
                                               !.origin = @ \o [i \in 1..r.added |-> m],
                                               !.cache = next]]
  /\ UNCHANGED <<maps, src, inputs, inst, enc, val, gv>>

\* WalkDynExpandFail that goes on with the next map.
WalkDynExpandFail_Skips(t) ==
  /\ call[t].pc = "walk"
  /\ map_list_next(maps, call[t].map) # 0
  /\ LET c == call[t]
         m == map_list_next(maps, c.map)
     IN  /\ ~IsCached(maps[m])
         /\ tmpl_aexpand(maps[m].rhs).ret < 0
         /\ call' = [call EXCEPT ![t] =
                         [@ EXCEPT !.map = m,
                                   !.steps = Append(@, Step(m, c.cache, c.cache, NULL))]]
  /\ UNCHANGED <<maps, src, inputs, inst, enc, val, gv>>

\* Lines 478-488: the default branch takes every right-hand side that is not
\* cached; its template does not expand.
WalkDynExpandFail(t) ==
  /\ call[t].pc = "walk"
  /\ map_list_next(maps, call[t].map) # 0
  /\ LET c == call[t]
         m == map_list_next(maps, c.map)
     IN  /\ ~IsCached(maps[m])
         /\ tmpl_aexpand(maps[m].rhs).ret < 0
         /\ call' = [call EXCEPT ![t] =
                         GotoFinish([@ EXCEPT !.map = m,
                                              !.steps = Append(@, Step(m, c.cache, c.cache, NULL))],
                                    "expand")]
  /\ UNCHANGED <<maps, src, inputs, inst, enc, val, gv>>

\* WalkDynParseFail that logs the error and goes on with the next map.
WalkDynParseFail_Skips(t) ==
  /\ call[t].pc = "walk"
  /\ map_list_next(maps, call[t].map) # 0
  /\ LET c == call[t]
         m == map_list_next(maps, c.map)
         x == tmpl_aexpand(maps[m].rhs)
     IN  /\ ~IsCached(maps[m])
         /\ x.ret >= 0
         /\ fr_jpath_parse(x.out).slen <= 0
         /\ call' = [call EXCEPT ![t] =
                         [@ EXCEPT !.map = m,
                                   !.steps = Append(@, Step(m, c.cache, c.cache, NULL))]]
  /\ UNCHANGED <<maps, src, inputs, inst, enc, val, gv>>

\* Lines 489-495: the expanded text does not compile.
WalkDynParseFail(t) ==
  /\ call[t].pc = "walk"
  /\ map_list_next(maps, call[t].map) # 0
  /\ LET c == call[t]
         m == map_list_next(maps, c.map)
         x == tmpl_aexpand(maps[m].rhs)
     IN  /\ ~IsCached(maps[m])
         /\ x.ret >= 0
         /\ fr_jpath_parse(x.out).slen <= 0
         /\ call' = [call EXCEPT ![t] =
                         GotoFinish([@ EXCEPT !.map = m,
                                              !.steps = Append(@, Step(m, c.cache, c.cache, NULL))],
                                    "compile")]
  /\ UNCHANGED <<maps, src, inputs, inst, enc, val, gv>>

\* WalkDynDeliverFail without the talloc_free(node) of line 499.
WalkDynDeliverFail_Leaks(t) ==
  /\ call[t].pc = "walk"
  /\ map_list_next(maps, call[t].map) # 0
  /\ LET c == call[t]
         m == map_list_next(maps, c.map)
         x == tmpl_aexpand(maps[m].rhs)
         node == fr_jpath_parse(x.out)
         r == map_to_request(c.request, maps[m], [jpath |-> node.head, root |-> c.root])
     IN  /\ ~IsCached(maps[m])
         /\ x.ret >= 0
         /\ node.slen > 0
         /\ r.ret < 0
         /\ call' = [call EXCEPT ![t] =
                         GotoFinish([@ EXCEPT !.map = m, !.dyn_parsed = @ + 1,
                                              !.steps = Append(@, Step(m, c.cache, c.cache, node.head))],
                                    "deliver")]
  /\ UNCHANGED <<maps, src, inputs, inst, enc, val, gv>>

\* Lines 496-503: the expression compiled, delivering its values failed; the
\* expression is freed.
WalkDynDeliverFail(t) ==
  /\ call[t].pc = "walk"
  /\ map_list_next(maps, call[t].map) # 0
  /\ LET c == call[t]
         m == map_list_next(maps, c.map)
         x == tmpl_aexpand(maps[m].rhs)
         node == fr_jpath_parse(x.out)
         r == map_to_request(c.request, maps[m], [jpath |-> node.head, root |-> c.root])
     IN  /\ ~IsCached(maps[m])
         /\ x.ret >= 0
         /\ node.slen > 0
         /\ r.ret < 0
         /\ call' = [call EXCEPT ![t] =
                         GotoFinish([@ EXCEPT !.map = m, !.dyn_parsed = @ + 1,
                                              !.dyn_freed = @ + 1,
                                              !.steps = Append(@, Step(m, c.cache, c.cache, node.head))],
                                    "deliver")]
  /\ UNCHANGED <<maps, src, inputs, inst, enc, val, gv>>

\* Lines 496-506: the expression compiled and its values were delivered; the
\* expression is freed, the cache pointer is not touched.
WalkDynDeliver(t) ==
  /\ call[t].pc = "walk"
  /\ map_list_next(maps, call[t].map) # 0
  /\ LET c == call[t]
         m == map_list_next(maps, c.map)
         x == tmpl_aexpand(maps[m].rhs)
         node == fr_jpath_parse(x.out)
         r == map_to_request(c.request, maps[m], [jpath |-> node.head, root |-> c.root])
     IN  /\ ~IsCached(maps[m])
         /\ x.ret >= 0
         /\ node.slen > 0
         /\ r.ret >= 0
         /\ call' = [call EXCEPT ![t] = [@ EXCEPT !.map = m, !.dyn_parsed = @ + 1,
                                                  !.dyn_freed = @ + 1,
                                                  !.steps = Append(@, Step(m, c.cache, c.cache, node.head)),
                                                  !.request = r.request,
                                                  !.origin = @ \o [i \in 1..r.added |-> m]]]
  /\ UNCHANGED <<maps, src, inputs, inst, enc, val, gv>>

\* Line 459: map_list_next returns NULL, the loop ends with rcode untouched.
WalkEnd(t) ==
  /\ call[t].pc = "walk"
  /\ map_list_next(maps, call[t].map) = 0
  /\ call' = [call EXCEPT ![t] = [@ EXCEPT !.map = 0, !.pc = "finish", !.exit = "end"]]
  /\ UNCHANGED <<maps, src, inputs, inst, enc, val, gv>>

\* Lines 511-515: the root and the tokener are released, rcode is returned.
Finish(t) ==
  /\ call[t].pc = "finish"
  /\ call' = [call EXCEPT ![t] = [@ EXCEPT !.root_put = @ + 1, !.root_live = FALSE,
                                           !.tok_free = @ + 1, !.tok = "freed",
                                           !.pc = "done"]]
  /\ UNCHANGED <<maps, src, inputs, inst, enc, val, gv>>

(***************************************************************************)
(* jpath_validate_xlat. val.path is the argument text as its tokens,       *)
(* val.vb the boxes allocated, val.head and val.jpath_str the locals,      *)
(* val.out the output cursor, val.ret the action returned. History:        *)
(* val.head_live (a compiled expression not yet freed), val.head_freed     *)
(* (calls of talloc_free(head)).                                           *)
(***************************************************************************)
ValidateTexts == SeqsUpTo(PathTokens, MaxPath)

\* fr_jpath_asprint(ctx, head): the expression printed from its nodes, members
\* in dot notation.
fr_jpath_asprint(head) ==
  [i \in 1..Len(head) |->
     CASE head[i] = "a" -> ".a"
       [] head[i] = "b" -> ".b"
       [] OTHER         -> head[i]]

\* fr_value_box_asprintf(ctx, vb, NULL, false, "%zu:%s", n, text).
fr_value_box_asprintf(n, text) == <<n, ":">> \o text

ValInit(path) ==
  [pc |-> "idle", path |-> path, vb |-> 0, slen |-> 0, head |-> NULL, jpath_str |-> NULL,
   out |-> <<>>, ret |-> "none", head_live |-> FALSE, head_freed |-> 0]

(***************************************************************************)
(* json_encode_xlat. The argument is a list of attribute references, each  *)
(* optionally prefixed with "!"; the references are read one at a time     *)
(* from the input buffer. enc.request resolves the references "A" (a list  *)
(* of up to MaxGroup pairs) and "B" (at most one pair); "E" is a reference *)
(* whose pairs cannot be copied and "?" is no reference at all.            *)
(* enc.json_vps and enc.vps are the two pair lists of the function,        *)
(* enc.out the output cursor, enc.ret the action returned. History:        *)
(* enc.tokens (the tokens consumed), enc.before (json_vps before the last  *)
(* token), enc.freed (calls of fr_pair_list_free(&json_vps)), enc.exit     *)
(* (the way the function returned).                                        *)
(***************************************************************************)
Pairs ==
  {[da |-> "User-Name", value |-> "bob"],
   [da |-> "User-Name", value |-> "alice"],
   [da |-> "Filter-Id", value |-> "x"]}

Requests == [A : SeqsUpTo(Pairs, MaxGroup), B : SeqsUpTo(Pairs, 1)]

Tokens == [negate : BOOLEAN, name : {"A", "B", "E", "?"}]

\* tmpl_afrom_attr_substr(ctx, NULL, &vpt, &sbuff, ...): the template of a
\* well formed reference, or slen <= 0.
tmpl_afrom_attr_substr(name) ==
  IF name = "?" THEN [slen |-> 0, vpt |-> NULL] ELSE [slen |-> 1, vpt |-> <<name>>]

\* tmpl_copy_pairs(ctx, &vps, request, vpt): the pairs the template selects in
\* the request are appended to vps; -1 when there are none, -2 on an error.
tmpl_copy_pairs(vps, request, vpt) ==
  IF vpt[1] \notin DOMAIN request THEN [ret |-> -2, vps |-> vps]
  ELSE IF request[vpt[1]] = <<>> THEN [ret |-> -1, vps |-> vps]
  ELSE [ret |-> Len(request[vpt[1]]), vps |-> vps \o request[vpt[1]]]

\* fr_json_afrom_pair_list(vb, &json_vps, format): the document text.
fr_json_afrom_pair_list(list) ==
  <<"{">> \o [i \in 1..Len(list) |-> <<list[i].da, list[i].value>>] \o <<"}">>

\* DeleteMatching that also compares the values.
DeleteMatching_ByValue(list, vp) ==
  LET Keep(vpm) == ~(vpm.da = vp.da /\ vpm.value = vp.value)
  IN  SelectSeq(list, Keep)

\* Lines 228-237: every pair of json_vps with vp's attribute is deleted.
DeleteMatching(list, vp) ==
  LET Keep(vpm) == vpm.da # vp.da
  IN  SelectSeq(list, Keep)

\* Lines 224-238: the deletion is done for every pair of vps in turn.
RECURSIVE RemoveAll(_, _)
RemoveAll(list, vps) ==
  IF vps = <<>> THEN list ELSE RemoveAll(DeleteMatching(list, Head(vps)), Tail(vps))

\* FreeVps that leaves the pairs in vps.
FreeVps_Forgotten(vps) == vps

\* Line 240: fr_pair_list_free(&vps).
FreeVps(vps) == <<>>

EncInit(request) ==
  [pc |-> "idle", request |-> request, json_vps |-> <<>>, vps |-> <<>>, out |-> <<>>,
   ret |-> "none", tokens |-> <<>>, before |-> <<>>, freed |-> 0, exit |-> "none"]

\* Lines 168-184: the lists are initialised.
EncodeEnter ==
  /\ enc.pc = "idle"
  /\ enc' = [enc EXCEPT !.pc = "scan"]
  /\ UNCHANGED <<maps, src, inputs, inst, call, val, gv>>

\* EncodeError that returns without freeing json_vps.
EncodeError_KeepsList(e, exit) ==
  [e EXCEPT !.ret = "XLAT_ACTION_FAIL", !.pc = "done", !.exit = exit]

\* Lines 207-210: json_vps is freed, XLAT_ACTION_FAIL is returned.
EncodeError(e, exit) ==
  [e EXCEPT !.json_vps = <<>>, !.freed = @ + 1, !.ret = "XLAT_ACTION_FAIL", !.pc = "done",
            !.exit = exit]

\* Lines 191-211: the next token is no attribute reference.
EncodeBadToken ==
  /\ enc.pc = "scan"
  /\ Len(enc.tokens) < MaxTokens
  /\ \E tk \in Tokens :
       /\ tmpl_afrom_attr_substr(tk.name).slen <= 0
       /\ enc' = EncodeError([enc EXCEPT !.tokens = Append(@, tk), !.before = enc.json_vps],
                              "token")
  /\ UNCHANGED <<maps, src, inputs, inst, call, val, gv>>

\* Lines 191-220: the pairs of the reference cannot be copied.
EncodeCopyError ==
  /\ enc.pc = "scan"
  /\ Len(enc.tokens) < MaxTokens
  /\ \E tk \in Tokens :
       LET t == tmpl_afrom_attr_substr(tk.name)
       IN  /\ t.slen > 0
           /\ tmpl_copy_pairs(enc.vps, enc.request, t.vpt).ret < -1
           /\ enc' = EncodeError([enc EXCEPT !.tokens = Append(@, tk), !.before = enc.json_vps],
                                  "copy")
  /\ UNCHANGED <<maps, src, inputs, inst, call, val, gv>>

\* Lines 191-240: a token with "!": the pairs of json_vps that have the
\* attribute of a pair of vps are deleted, vps is freed.
EncodeExclude ==
  /\ enc.pc = "scan"
  /\ Len(enc.tokens) < MaxTokens
  /\ \E tk \in Tokens :
       LET t == tmpl_afrom_attr_substr(tk.name)
           r == tmpl_copy_pairs(enc.vps, enc.request, t.vpt)
       IN  /\ tk.negate
           /\ t.slen > 0
           /\ r.ret >= -1
           /\ enc' = [enc EXCEPT !.tokens = Append(@, tk), !.before = enc.json_vps,
                                 !.json_vps = RemoveAll(enc.json_vps, r.vps),
                                 !.vps = FreeVps(r.vps)]
  /\ UNCHANGED <<maps, src, inputs, inst, call, val, gv>>

\* Lines 191-244: a token without "!": vps is moved to the end of json_vps.
EncodeInclude ==
  /\ enc.pc = "scan"
  /\ Len(enc.tokens) < MaxTokens
  /\ \E tk \in Tokens :
       LET t == tmpl_afrom_attr_substr(tk.name)
           r == tmpl_copy_pairs(enc.vps, enc.request, t.vpt)
       IN  /\ ~tk.negate
           /\ t.slen > 0
           /\ r.ret >= -1
           /\ enc' = [enc EXCEPT !.tokens = Append(@, tk), !.before = enc.json_vps,
                                 !.json_vps = enc.json_vps \o r.vps,
                                 !.vps = <<>>]
  /\ UNCHANGED <<maps, src, inputs, inst, call, val, gv>>

\* Lines 257-263: the buffer is exhausted, the encoder fails.
EncodeEncoderFail ==
  /\ enc.pc = "scan"
  /\ enc' = EncodeError(enc, "encoder")
  /\ UNCHANGED <<maps, src, inputs, inst, call, val, gv>>

\* Lines 257-269: the buffer is exhausted, the document is appended to the
\* output, json_vps is freed.
EncodeDone ==
  /\ enc.pc = "scan"
  /\ enc' = [enc EXCEPT !.out = Append(@, fr_json_afrom_pair_list(enc.json_vps)),
                        !.json_vps = <<>>, !.freed = @ + 1,
                        !.ret = "XLAT_ACTION_DONE", !.pc = "done", !.exit = "ok"]
  /\ UNCHANGED <<maps, src, inputs, inst, call, val, gv>>

EncodeInitial ==
  /\ maps = <<>>
  /\ src = TRUE
  /\ inputs = {}
  /\ inst = InstInit
  /\ call = [t \in 1..1 |-> CallInit]
  /\ \E request \in Requests : enc = EncInit(request)
  /\ val = ValInit(<<>>)
  /\ gv = GetValueInit(<<>>, GetValueIdleMap, [jpath |-> NULL, root |-> NULL])

EncodeNext ==
  \/ EncodeEnter
  \/ EncodeBadToken
  \/ EncodeCopyError
  \/ EncodeExclude
  \/ EncodeInclude
  \/ EncodeEncoderFail
  \/ EncodeDone

SpecEncode == EncodeInitial /\ [][EncodeNext]_vars

(***************************************************************************)
(* The steps of jpath_validate_xlat.                                        *)
(***************************************************************************)

\* Lines 127-133: the output box is allocated.
ValidateEnter ==
  /\ val.pc = "idle"
  /\ val' = [val EXCEPT !.vb = @ + 1, !.pc = "parse"]
  /\ UNCHANGED <<maps, src, inputs, inst, call, enc, gv>>

\* ValidateParseFail that returns the failure action with no output.
ValidateParseFail_Fails ==
  /\ val.pc = "parse"
  /\ LET r == fr_jpath_parse_tokens(val.path)
     IN  /\ r.slen <= 0
         /\ val' = [val EXCEPT !.slen = r.slen, !.head = r.head,
                               !.ret = "XLAT_ACTION_FAIL", !.pc = "done"]
  /\ UNCHANGED <<maps, src, inputs, inst, call, enc, gv>>

\* Lines 135-141: the text does not compile: "<offset>:<message>" is
\* appended, XLAT_ACTION_DONE is returned.
ValidateParseFail ==
  /\ val.pc = "parse"
  /\ LET r == fr_jpath_parse_tokens(val.path)
     IN  /\ r.slen <= 0
         /\ val' = [val EXCEPT !.slen = r.slen, !.head = r.head,
                               !.out = Append(@, fr_value_box_asprintf(-r.slen, <<r.err>>)),
                               !.ret = "XLAT_ACTION_DONE", !.pc = "done"]
  /\ UNCHANGED <<maps, src, inputs, inst, call, enc, gv>>

\* Lines 135-142: the text compiles.
ValidateParsed ==
  /\ val.pc = "parse"
  /\ LET r == fr_jpath_parse_tokens(val.path)
     IN  /\ r.slen > 0
         /\ val' = [val EXCEPT !.slen = r.slen, !.head = r.head, !.head_live = TRUE,
                               !.pc = "print"]
  /\ UNCHANGED <<maps, src, inputs, inst, call, enc, gv>>

\* Lines 144-147: the expression is printed, "<bytes parsed>:<expression>" is
\* appended.
ValidatePrint ==
  /\ val.pc = "print"
  /\ LET str == fr_jpath_asprint(val.head)
     IN  val' = [val EXCEPT !.jpath_str = str,
                           !.out = Append(@, fr_value_box_asprintf(val.slen, str)),
                           !.pc = "free"]
  /\ UNCHANGED <<maps, src, inputs, inst, call, enc, gv>>

\* Lines 148-151: the expression and its print are freed, XLAT_ACTION_DONE is
\* returned.
ValidateFree ==
  /\ val.pc = "free"
  /\ val' = [val EXCEPT !.head = NULL, !.head_live = FALSE, !.head_freed = @ + 1,
                        !.jpath_str = NULL, !.ret = "XLAT_ACTION_DONE", !.pc = "done"]
  /\ UNCHANGED <<maps, src, inputs, inst, call, enc, gv>>

ValidateInitial ==
  /\ maps = <<>>
  /\ src = TRUE
  /\ inputs = {}
  /\ inst = InstInit
  /\ call = [t \in 1..1 |-> CallInit]
  /\ enc = EncInit([A |-> <<>>, B |-> <<>>])
  /\ \E path \in ValidateTexts : val = ValInit(path)
  /\ gv = GetValueInit(<<>>, GetValueIdleMap, [jpath |-> NULL, root |-> NULL])

ValidateNext ==
  \/ ValidateEnter
  \/ ValidateParseFail
  \/ ValidateParsed
  \/ ValidatePrint
  \/ ValidateFree

SpecValidate == ValidateInitial /\ [][ValidateNext]_vars

(***************************************************************************)
(* _json_map_proc_get_value called on its own.                             *)
(***************************************************************************)
GetValueInitial ==
  /\ maps = <<>>
  /\ src = TRUE
  /\ inputs = {}
  /\ inst = InstInit
  /\ call = [t \in 1..1 |-> CallInit]
  /\ enc = EncInit([A |-> <<>>, B |-> <<>>])
  /\ val = ValInit(<<>>)
  /\ \E given \in GetValueGiven, map \in GetValueMaps, to_eval \in GetValueToEval :
       gv = GetValueInit(given, map, to_eval)

GetValueNext ==
  \/ GetValueEvalFail
  \/ GetValueNoMatch
  \/ GetValueMatched
  \/ GetValueSteal
  \/ GetValueStealFail
  \/ GetValueReturn

SpecGetValue == GetValueInitial /\ [][GetValueNext]_vars

(***************************************************************************)
(* One map processor: a map list is instantiated, then evaluated once.     *)
(***************************************************************************)
Init ==
  /\ maps \in MapLists
  /\ src \in BOOLEAN
  /\ inputs = JsonInputs
  /\ inst = InstInit
  /\ call = [t \in 1..1 |-> CallInit]
  /\ enc = EncInit([A |-> <<>>, B |-> <<>>])
  /\ val = ValInit(<<>>)
  /\ gv = GetValueInit(<<>>, GetValueIdleMap, [jpath |-> NULL, root |-> NULL])

Next ==
  \/ InstantiateNoSrc
  \/ InstantiateEnter
  \/ InstantiateSyntaxError
  \/ InstantiateNotString
  \/ InstantiateCompile
  \/ InstantiateSkip
  \/ InstantiateDone
  \/ \E t \in DOMAIN call : MapProcNullInput(t)
  \/ \E t \in DOMAIN call : MapProcConcatFail(t)
  \/ \E t \in DOMAIN call : MapProcEmpty(t)
  \/ \E t \in DOMAIN call : MapProcParseFail(t)
  \/ \E t \in DOMAIN call : MapProcParsed(t)
  \/ \E t \in DOMAIN call : WalkCached(t)
  \/ \E t \in DOMAIN call : WalkDynExpandFail(t)
  \/ \E t \in DOMAIN call : WalkDynParseFail(t)
  \/ \E t \in DOMAIN call : WalkDynDeliverFail(t)
  \/ \E t \in DOMAIN call : WalkDynDeliver(t)
  \/ \E t \in DOMAIN call : WalkEnd(t)
  \/ \E t \in DOMAIN call : Finish(t)

Spec == Init /\ [][Next]_vars

(***************************************************************************)
(* NumCalls requests evaluated at the same time by threads that share one  *)
(* instantiated cache (the module is RLM_TYPE_THREAD_SAFE, line 572). The  *)
(* map lists are drawn from ConcMaps and the inputs from ConcInputs.       *)
(***************************************************************************)
ConcMaps ==
  {m \in Maps :
     \/ m.lhs.type = "string" /\ m.rhs.type = "TMPL_TYPE_UNRESOLVED" /\ m.rhs.name \in {"$.a[*]", "$["}
     \/ m.lhs.type = "uint32" /\ m.rhs.type \in {"TMPL_TYPE_DATA", "TMPL_TYPE_XLAT"}}

ConcInputs ==
  {j \in JsonInputs :
     j.str \in {<<>>, <<"{", "5">>, <<"{", "5", "}">>, <<"{", "hello", "}">>}}

ConcInit ==
  /\ maps \in SeqsUpTo(ConcMaps, MaxMaps)
  /\ src \in BOOLEAN
  /\ inputs = ConcInputs
  /\ inst = InstInit
  /\ call = [t \in 1..NumCalls |-> CallInit]
  /\ enc = EncInit([A |-> <<>>, B |-> <<>>])
  /\ val = ValInit(<<>>)
  /\ gv = GetValueInit(<<>>, GetValueIdleMap, [jpath |-> NULL, root |-> NULL])

SpecConc == ConcInit /\ [][Next]_vars

(***************************************************************************)
(* Properties of the map processor.                                        *)
(***************************************************************************)
Done(c) == c.pc = "done"

\* The number of cached (static text or literal data) maps among the first j.
CachedBefore(list, j) == Cardinality({i \in 1..j : IsCached(list[i])})
CachedCount(list) == CachedBefore(list, Len(list))

\* The cache entries that hold a compiled expression.
CompiledEntries == {e \in 1..Len(inst.heap) : inst.heap[e].jpath # NULL}

\* The text a map's expression is compiled from, at build time or in the walk.
MapText(map) == IF IsCached(map) THEN map.rhs.name ELSE tmpl_aexpand(map.rhs).out

\* The walk cannot evaluate the map: its template does not expand or compile.
MapBlocked(map) ==
  ~IsCached(map) /\ (tmpl_aexpand(map.rhs).ret < 0 \/ fr_jpath_parse(MapText(map)).slen <= 0)

\* The leaves the map's expression matches in the document.
MapMatches(map, root) == JpathMatches(root, fr_jpath_parse(MapText(map)).head)

\* Some leaf the map matches has no representation in the map's attribute.
MapUncoercible(map, root) ==
  /\ ~MapBlocked(map)
  /\ \E i \in 1..Len(MapMatches(map, root)) :
       LET leaf == MapMatches(map, root)[i]
       IN  \/ ~Coercible(leaf, map.lhs.type)
           \/ fr_value_box_steal(LeafToBox(leaf, map.lhs.type)).ret < 0

\* C1: for a non-empty document text the call returns FAIL if a step aborted,
\* else NOOP if no value was delivered, else UPDATED.
C1_ResultCode ==
  \A t \in DOMAIN call :
    LET c == call[t]
    IN  (Done(c) /\ maps # <<>> /\ c.json.head /\ c.json.concat /\ Len(c.json.str) > 0) =>
          /\ c.exit # "end" => c.rcode = "RLM_MODULE_FAIL"
          /\ (c.exit = "end" /\ c.request = <<>>) => c.rcode = "RLM_MODULE_NOOP"
          /\ (c.exit = "end" /\ c.request # <<>>) => c.rcode = "RLM_MODULE_UPDATED"

\* C2 as stated: after a successful build the cache has as many entries as
\* there are cached maps, and a complete walk reads every entry.
C2_CacheLength ==
  (inst.pc = "ok" /\ maps # <<>>) =>
    /\ Len(inst.heap) = CachedCount(maps)
    /\ \A t \in DOMAIN call :
         (Done(call[t]) /\ call[t].exit = "end") =>
           {call[t].steps[i].before : i \in {k \in 1..Len(call[t].steps) : IsCached(maps[k])}}
             = 1..Len(inst.heap)

\* C2 amended: after a successful build the entries that hold a compiled
\* expression are as many as the cached maps, the cache has at most one more
\* (empty) entry, and a complete walk reads every entry that holds an
\* expression exactly once.
C2_CompiledEntries ==
  inst.pc = "ok" =>
    /\ Cardinality(CompiledEntries) = CachedCount(maps)
    /\ Len(inst.heap) <= CachedCount(maps) + 1
    /\ \A t \in DOMAIN call :
         (Done(call[t]) /\ call[t].exit = "end") =>
           LET read == {k \in 1..Len(call[t].steps) : IsCached(maps[k])}
           IN  /\ {call[t].steps[i].before : i \in read} = CompiledEntries
               /\ Cardinality(read) = Cardinality(CompiledEntries)

C2_Witness ==
  /\ inst.pc = "ok"
  /\ CachedCount(maps) >= 1
  /\ Len(inst.heap) = CachedCount(maps) + 1
  /\ \E t \in DOMAIN call : Done(call[t]) /\ call[t].exit = "end"

\* C3: in the walk the cache pointer is at an existing entry whenever a cached
\* map is reached; the k-th cached map uses the k-th entry, whose expression
\* was compiled from that map's text; a cached map that was delivered moves
\* the pointer to the entry's next, a dynamic map leaves it alone.
C3_LockStep ==
  \A t \in DOMAIN call :
    LET c == call[t]
    IN  /\ c.pc # "crashed"
        /\ c.pc = "walk" => c.cache = IF c.steps = <<>> THEN 1 ELSE c.steps[Len(c.steps)].after
        /\ \A i \in 1..Len(c.steps) :
             LET s == c.steps[i]
                 failed == i = Len(c.steps) /\ c.exit = "deliver"
             IN  /\ s.map = i
                 /\ s.before = IF i = 1 THEN 1 ELSE c.steps[i - 1].after
                 /\ IsCached(maps[i]) =>
                      /\ s.before \in 1..Len(inst.heap)
                      /\ s.before = CachedBefore(maps, i)
                      /\ s.jpath # NULL
                      /\ s.jpath = fr_jpath_parse(maps[i].rhs.name).head
                      /\ s.after = IF failed THEN s.before
                                   ELSE IF s.before < Len(inst.heap) THEN s.before + 1 ELSE 0
                 /\ ~IsCached(maps[i]) => s.after = s.before

C3_Witness ==
  \E t \in DOMAIN call :
    /\ Done(call[t]) /\ call[t].exit = "end"
    /\ Len(call[t].steps) = 2
    /\ IsCached(maps[1]) /\ IsCached(maps[2])
    /\ call[t].steps[1].jpath # call[t].steps[2].jpath

\* C4 as stated: when a matched value cannot be coerced the call returns FAIL
\* and the request received no value at all.
C4_NothingDelivered ==
  \A t \in DOMAIN call :
    (Done(call[t]) /\ call[t].exit = "deliver") =>
      call[t].rcode = "RLM_MODULE_FAIL" /\ call[t].request = <<>>

\* C4 amended: when map j is the first map the walk cannot complete and the
\* reason is a matched value that cannot be coerced, the call returns FAIL,
\* the walk stops at j, no value of map j or of a later map is delivered, and
\* every earlier map's values stay delivered.
C4_FailKeepsEarlier ==
  \A t \in DOMAIN call :
    LET c == call[t]
    IN  (Done(c) /\ c.tok_new = 1 /\ c.root # NULL) =>
          \A j \in 1..Len(maps) :
            ( /\ MapUncoercible(maps[j], c.root)
              /\ \A i \in 1..(j - 1) : ~MapBlocked(maps[i]) /\ ~MapUncoercible(maps[i], c.root) )
            => /\ c.rcode = "RLM_MODULE_FAIL"
               /\ c.exit = "deliver"
               /\ c.map = j
               /\ Len(c.steps) = j
               /\ Len(c.origin) = Len(c.request)
               /\ \A n \in 1..Len(c.origin) : c.origin[n] < j
               /\ \A i \in 1..(j - 1) :
                    Cardinality({n \in 1..Len(c.origin) : c.origin[n] = i})
                      = Len(MapMatches(maps[i], c.root))

C4_Witness ==
  \E t \in DOMAIN call :
    /\ Done(call[t]) /\ call[t].exit = "deliver"
    /\ call[t].map = 2
    /\ call[t].rcode = "RLM_MODULE_FAIL"
    /\ call[t].request # <<>>

\* The dynamic maps among the first j.
DynamicBefore(list, j) == Cardinality({i \in 1..j : ~IsCached(list[i])})

\* The expanded text of a dynamic map does not compile.
DynCompileFails(map) ==
  /\ ~IsCached(map)
  /\ tmpl_aexpand(map.rhs).ret >= 0
  /\ fr_jpath_parse(tmpl_aexpand(map.rhs).out).slen <= 0

\* C12: a call that left the walk on a compile failure returns FAIL and took
\* up no map after the failing one; when map j is the first map the walk
\* cannot complete and the reason is a dynamic text that does not compile,
\* the call returns FAIL, the walk stops at j, nothing is compiled or
\* evaluated for j or a later map and no value of j or a later map is
\* delivered.
C12_CompileFailStops ==
  \A t \in DOMAIN call :
    LET c == call[t]
    IN  /\ c.exit = "compile" =>
             /\ c.rcode = "RLM_MODULE_FAIL"
             /\ c.pc \in {"finish", "done"}
             /\ c.map = Len(c.steps)
             /\ DynCompileFails(maps[c.map])
             /\ c.steps[c.map].jpath = NULL
        /\ (Done(c) /\ c.tok_new = 1 /\ c.root # NULL) =>
             \A j \in 1..Len(maps) :
               ( /\ DynCompileFails(maps[j])
                 /\ \A i \in 1..(j - 1) : ~MapBlocked(maps[i]) /\ ~MapUncoercible(maps[i], c.root) )
               => /\ c.rcode = "RLM_MODULE_FAIL"
                  /\ c.exit = "compile"
                  /\ c.map = j
                  /\ Len(c.steps) = j
                  /\ c.dyn_parsed = DynamicBefore(maps, j - 1)
                  /\ \A n \in 1..Len(c.origin) : c.origin[n] < j
                  /\ Len(c.request) = Len(c.origin)

C12_Witness ==
  \E t \in DOMAIN call :
    /\ Done(call[t]) /\ call[t].exit = "compile"
    /\ Len(maps) = 2 /\ call[t].map = 1
    /\ ~MapBlocked(maps[2]) /\ ~MapUncoercible(maps[2], call[t].root)
    /\ MapMatches(maps[2], call[t].root) # <<>>
    /\ call[t].request = <<>>

\* C13: at every map boundary and at the return of a call every expression
\* the call compiled for a dynamic map has been freed, once; each dynamic map
\* the walk evaluated used an expression compiled in that step from the
\* map's expanded text, whether its delivery succeeded or failed; the cache
\* holds the expressions of the cached maps and nothing else.
C13_DynamicReleased ==
  /\ \A t \in DOMAIN call :
       LET c == call[t]
           dyn == {i \in 1..Len(c.steps) : ~IsCached(maps[i]) /\ c.steps[i].jpath # NULL}
       IN  /\ c.dyn_freed = c.dyn_parsed
           /\ c.dyn_parsed = Cardinality(dyn)
           /\ \A i \in 1..Len(c.steps) :
                ~IsCached(maps[i]) =>
                  c.steps[i].jpath = IF MapBlocked(maps[i]) THEN NULL
                                     ELSE fr_jpath_parse(tmpl_aexpand(maps[i].rhs).out).head
  /\ inst.pc = "ok" =>
       /\ \A i \in 1..Len(maps) :
            IsCached(maps[i]) =>
              inst.heap[CachedBefore(maps, i)].jpath = fr_jpath_parse(maps[i].rhs.name).head
       /\ \A e \in 1..Len(inst.heap) : e > CachedCount(maps) => inst.heap[e].jpath = NULL

C13_Witness ==
  \E t \in DOMAIN call :
    /\ Done(call[t]) /\ call[t].exit = "deliver"
    /\ Len(maps) = 2 /\ ~IsCached(maps[1]) /\ ~IsCached(maps[2])
    /\ call[t].request # <<>>
    /\ call[t].dyn_parsed = 2 /\ call[t].dyn_freed = 2

\* A right-hand side that is neither static text, literal data nor a dynamic
\* template.
Unsupported(map) ==
  map.rhs.type \notin {"TMPL_TYPE_UNRESOLVED", "TMPL_TYPE_DATA", "TMPL_TYPE_XLAT"}

\* C14 as stated: a map with an unsupported right-hand side that the walk
\* takes up produces no value, leaves the cache pointer alone, does not make
\* the call FAIL, and the walk goes on to the next map or to the end.
C14_UnsupportedSkipped ==
  \A t \in DOMAIN call :
    LET c == call[t]
    IN  \A i \in 1..Len(c.steps) :
          Unsupported(maps[i]) =>
            /\ \A n \in 1..Len(c.origin) : c.origin[n] # i
            /\ c.steps[i].after = c.steps[i].before
            /\ ~(Len(c.steps) = i /\ c.rcode = "RLM_MODULE_FAIL")
            /\ Done(c) => (Len(c.steps) > i \/ c.exit = "end")

\* C14 amended: the walk handles every map that is not cached, an unsupported
\* one included, as a dynamic template: it leaves the cache pointer alone and
\* expands the right-hand side; when that fails the call returns FAIL and the
\* walk stops at the map with no value of it delivered, otherwise the
\* expanded text is compiled and evaluated.
C14_UnsupportedAsDynamic ==
  \A t \in DOMAIN call :
    LET c == call[t]
    IN  \A i \in 1..Len(c.steps) :
          ~IsCached(maps[i]) =>
            LET x == tmpl_aexpand(maps[i].rhs)
            IN  /\ c.steps[i].after = c.steps[i].before
                /\ x.ret < 0 =>
                     /\ c.rcode = "RLM_MODULE_FAIL"
                     /\ c.exit = "expand"
                     /\ Len(c.steps) = i /\ c.map = i
                     /\ c.pc \in {"finish", "done"}
                     /\ c.steps[i].jpath = NULL
                     /\ \A n \in 1..Len(c.origin) : c.origin[n] < i
                /\ x.ret >= 0 =>
                     /\ ~(Len(c.steps) = i /\ c.exit = "expand")
                     /\ c.steps[i].jpath = fr_jpath_parse(x.out).head
                     /\ fr_jpath_parse(x.out).slen <= 0 => (c.exit = "compile" /\ Len(c.steps) = i)

C14_Witness ==
  \E t \in DOMAIN call :
    /\ Done(call[t]) /\ call[t].exit = "expand"
    /\ Len(maps) = 2 /\ Unsupported(maps[1]) /\ call[t].map = 1
    /\ ~MapBlocked(maps[2]) /\ ~MapUncoercible(maps[2], call[t].root)
    /\ MapMatches(maps[2], call[t].root) # <<>>
    /\ call[t].rcode = "RLM_MODULE_FAIL" /\ call[t].request = <<>>

\* C15: a map the walk evaluated whose expression matches no leaf delivers
\* nothing and does not end the walk: the call does not stop at it with FAIL,
\* the walk takes up the next map, or reaches the end of the list and returns
\* without FAIL; when the map is cached the cache pointer moves to the next
\* entry.
C15_ZeroMatchContinues ==
  \A t \in DOMAIN call :
    LET c == call[t]
    IN  \A i \in 1..Len(c.steps) :
          LET s == c.steps[i]
          IN  (s.jpath # NULL /\ JpathMatches(c.root, s.jpath) = <<>>) =>
                /\ \A n \in 1..Len(c.origin) : c.origin[n] # i
                /\ ~(Len(c.steps) = i /\ c.rcode = "RLM_MODULE_FAIL")
                /\ c.pc \in {"finish", "done"} =>
                     \/ Len(c.steps) > i
                     \/ i = Len(maps) /\ c.exit = "end" /\ c.rcode = "RLM_MODULE_UPDATED"
                /\ IsCached(maps[i]) =>
                     /\ s.after = inst.heap[s.before].next
                     /\ s.after = IF s.before < Len(inst.heap) THEN s.before + 1 ELSE 0
                /\ ~IsCached(maps[i]) => s.after = s.before

C15_Witness ==
  \E t \in DOMAIN call :
    /\ Done(call[t]) /\ call[t].exit = "end"
    /\ Len(maps) = 2 /\ IsCached(maps[1]) /\ IsCached(maps[2])
    /\ MapMatches(maps[1], call[t].root) = <<>>
    /\ Len(MapMatches(maps[2], call[t].root)) = 1
    /\ call[t].steps[1].after = 2
    /\ call[t].origin = <<2>>

\* The pairs of one map's matches in a document, in match order.
MapPairs(map, root) ==
  LET m == MapMatches(map, root)
  IN  [k \in 1..Len(m) |->
         [da |-> map.lhs.da, op |-> map.op,
          data |-> [type |-> map.lhs.type, datum |-> m[k]]]]

\* The pairs of the maps i.. of the list, in map order.
RECURSIVE PairsFrom(_, _, _)
PairsFrom(list, root, i) ==
  IF i > Len(list) THEN <<>> ELSE MapPairs(list[i], root) \o PairsFrom(list, root, i + 1)

RECURSIVE OriginsFrom(_, _, _)
OriginsFrom(list, root, i) ==
  IF i > Len(list) THEN <<>>
  ELSE [k \in 1..Len(MapMatches(list[i], root)) |-> i] \o OriginsFrom(list, root, i + 1)

\* C16: when the walk reached the end of the list the pairs delivered to the
\* request are, map after map in list order, one pair for every leaf the
\* map's expression matches, in match order, with the map's attribute and
\* type, the map's operator and the leaf's value.
C16_DeliveredInOrder ==
  \A t \in DOMAIN call :
    LET c == call[t]
    IN  (Done(c) /\ c.exit = "end") =>
          /\ c.rcode = "RLM_MODULE_UPDATED"
          /\ c.request = PairsFrom(maps, c.root, 1)
          /\ c.origin = OriginsFrom(maps, c.root, 1)

C16_Witness ==
  \E t \in DOMAIN call :
    /\ Done(call[t]) /\ call[t].exit = "end"
    /\ Len(maps) = 2 /\ maps[1].op # maps[2].op
    /\ call[t].origin = <<1, 1, 2>>
    /\ call[t].request[1].data # call[t].request[2].data

\* C18: after a successful build the cache has the pre-allocated entry and one
\* more entry for every cached map that is not the last map of the list; the
\* entries are chained in order and the last entry's next is NULL.
C18_CacheShape ==
  inst.pc = "ok" =>
    /\ Len(inst.heap) >= 1
    /\ Len(inst.heap) = 1 + Cardinality({i \in 1..Len(maps) : IsCached(maps[i]) /\ i < Len(maps)})
    /\ \A e \in 1..Len(inst.heap) :
         inst.heap[e].next = IF e < Len(inst.heap) THEN e + 1 ELSE 0
    /\ inst.heap[Len(inst.heap)].next = 0

C18_Witness ==
  /\ inst.pc = "ok"
  /\ Len(maps) = 2 /\ IsCached(maps[1]) /\ ~IsCached(maps[2])
  /\ Len(inst.heap) = 2
  /\ inst.heap[2] = ZeroEntry

\* C5: a call that created the tokener has released the root and the tokener
\* exactly once when it returns, whatever the exit; a call that returned
\* before creating it released neither.
C5_ReleasedOnce ==
  \A t \in DOMAIN call :
    LET c == call[t]
    IN  /\ c.tok_new <= 1 /\ c.tok_free <= c.tok_new /\ c.root_put <= c.tok_new
        /\ Done(c) =>
             /\ c.tok_new = 1 => (c.tok_free = 1 /\ c.root_put = 1 /\ ~c.root_live /\ c.tok = "freed")
             /\ c.tok_new = 0 => (c.tok_free = 0 /\ c.root_put = 0 /\ c.tok = "none")
             /\ c.tok_new = 0 <=> c.exit \in {"null", "concat", "empty"}

C5_Witness ==
  \E t \in DOMAIN call :
    /\ Done(call[t]) /\ call[t].exit = "compile"
    /\ call[t].tok_free = 1 /\ call[t].root_put = 1

\* C8: a call with no input box or with a text of length 0 returns FAIL
\* without creating the tokener, parsing, taking up a map or delivering.
C8_EmptyInputFails ==
  \A t \in DOMAIN call :
    LET c == call[t]
    IN  (c.pc # "idle" /\ (~c.json.head \/ (c.json.concat /\ Len(c.json.str) = 0))) =>
          /\ Done(c)
          /\ c.rcode = "RLM_MODULE_FAIL"
          /\ c.tok_new = 0 /\ c.root = NULL /\ ~c.root_live
          /\ c.map = 0 /\ c.steps = <<>> /\ c.request = <<>>

C8_Witness ==
  \E t \in DOMAIN call :
    /\ Done(call[t]) /\ call[t].json.head /\ call[t].json.concat
    /\ Len(call[t].json.str) = 0
    /\ call[t].rcode = "RLM_MODULE_FAIL"

\* C9: the build returns -1 at the first cached map whose text does not
\* compile and compiles nothing after it; only cached maps are compiled; a
\* build that returns 0 met no cached map with a text that does not compile.
C9_FailFast ==
  /\ \A k \in 1..Len(inst.parsed) :
       /\ IsCached(maps[inst.parsed[k]])
       /\ k > 1 => inst.parsed[k - 1] < inst.parsed[k]
       /\ k < Len(inst.parsed) => fr_jpath_parse(maps[inst.parsed[k]].rhs.name).slen > 0
  /\ inst.err = "syntax" =>
       /\ inst.pc = "fail"
       /\ IsCached(maps[inst.map])
       /\ fr_jpath_parse(maps[inst.map].rhs.name).slen <= 0
       /\ inst.parsed # <<>> /\ inst.parsed[Len(inst.parsed)] = inst.map
  /\ inst.pc = "ok" =>
       \A i \in 1..Len(maps) : IsCached(maps[i]) => fr_jpath_parse(maps[i].rhs.name).slen > 0
  /\ (inst.pc = "fail" /\ \A i \in 1..Len(maps) : ~IsCached(maps[i])) => inst.err = "nosrc"

C9_Witness ==
  /\ inst.pc = "fail" /\ inst.err = "syntax"
  /\ inst.map = 1 /\ Len(maps) = 2
  /\ IsCached(maps[2])
  /\ inst.parsed = <<1>>

(***************************************************************************)
(* Properties of json_encode_xlat.                                         *)
(***************************************************************************)
Include(n) == [negate |-> FALSE, name |-> n]
Exclude(n) == [negate |-> TRUE, name |-> n]
LastToken == enc.tokens[Len(enc.tokens)]

\* C6: for every reference A, after the tokens A !A the accumulator is empty
\* and after A !A A it holds A's pairs in order; after any tokens ending in
\* !A A the accumulator ends with A's pairs; the document returned is the
\* encoding of that accumulator.
C6_ExcludeThenInclude ==
  \A n \in DOMAIN enc.request :
    LET g == enc.request[n]
        k == Len(enc.tokens)
        acc == enc.json_vps
    IN  /\ (enc.pc = "scan" /\ enc.tokens = <<Include(n), Exclude(n)>>) => acc = <<>>
        /\ (enc.pc = "scan" /\ enc.tokens = <<Include(n), Exclude(n), Include(n)>>) => acc = g
        /\ (enc.pc = "scan" /\ k >= 2 /\ enc.tokens[k] = Include(n)
              /\ enc.tokens[k - 1] = Exclude(n)) =>
             /\ Len(acc) >= Len(g)
             /\ SubSeq(acc, Len(acc) - Len(g) + 1, Len(acc)) = g
        /\ (enc.exit = "ok" /\ enc.tokens = <<Include(n), Exclude(n)>>) =>
             enc.out = <<fr_json_afrom_pair_list(<<>>)>>
        /\ (enc.exit = "ok" /\ enc.tokens = <<Include(n), Exclude(n), Include(n)>>) =>
             enc.out = <<fr_json_afrom_pair_list(g)>>

C6_Witness ==
  /\ enc.pc = "scan"
  /\ enc.tokens = <<Include("A"), Exclude("A"), Include("A")>>
  /\ Len(enc.request.A) = 2
  /\ enc.request.A[1] # enc.request.A[2]
  /\ enc.json_vps = enc.request.A

\* C7: a token with "!" removes from the accumulator exactly the pairs whose
\* attribute is the attribute of a pair of the resolved group, whatever their
\* value, and keeps the others in order; a token without "!" appends the
\* resolved pairs in order and keeps all that was there; a token that resolves
\* to no pair leaves the accumulator as it was and does not fail the call.
C7_TokenEffect ==
  /\ (enc.pc = "scan" /\ enc.tokens # <<>>) =>
       LET tk == LastToken
           g == enc.request[tk.name]
           Other(vp) == \A i \in 1..Len(g) : g[i].da # vp.da
       IN  /\ tk.name \in DOMAIN enc.request
           /\ tk.negate => enc.json_vps = SelectSeq(enc.before, Other)
           /\ ~tk.negate => enc.json_vps = enc.before \o g
           /\ g = <<>> => enc.json_vps = enc.before
           /\ enc.vps = <<>>
  /\ enc.exit = "token" => LastToken.name = "?"
  /\ enc.exit = "copy" => LastToken.name = "E"

C7_Witness ==
  /\ enc.pc = "scan"
  /\ enc.tokens = <<Include("A"), Exclude("B")>>
  /\ enc.request.A = <<[da |-> "User-Name", value |-> "bob"], [da |-> "Filter-Id", value |-> "x"]>>
  /\ enc.request.B = <<[da |-> "User-Name", value |-> "alice"]>>
  /\ enc.json_vps = <<[da |-> "Filter-Id", value |-> "x"]>>

\* C11: json_encode_xlat has freed json_vps exactly once when it returns, on
\* every path, and not before; a bad token, a copy error and an encoder
\* failure return XLAT_ACTION_FAIL with nothing appended to the output; the
\* output holds a value only when the buffer was consumed with every token a
\* resolvable reference and the encoder succeeded, and then exactly one.
C11_AccumulatorReleased ==
  /\ enc.pc = "done" <=> enc.exit # "none"
  /\ enc.pc = "done" => enc.freed = 1 /\ enc.json_vps = <<>>
  /\ enc.pc # "done" => enc.freed = 0 /\ enc.out = <<>> /\ enc.ret = "none"
  /\ enc.exit \in {"token", "copy", "encoder"} =>
       enc.ret = "XLAT_ACTION_FAIL" /\ enc.out = <<>>
  /\ enc.exit = "ok" => enc.ret = "XLAT_ACTION_DONE" /\ Len(enc.out) = 1
  /\ enc.out # <<>> =>
       /\ enc.exit = "ok"
       /\ \A k \in 1..Len(enc.tokens) :
            /\ tmpl_afrom_attr_substr(enc.tokens[k].name).slen > 0
            /\ enc.tokens[k].name \in DOMAIN enc.request

C11_Witness ==
  /\ enc.exit = "copy"
  /\ enc.before # <<>>
  /\ enc.json_vps = <<>>
  /\ enc.ret = "XLAT_ACTION_FAIL"

(***************************************************************************)
(* Properties of _json_map_proc_get_value.                                 *)
(***************************************************************************)

\* C19: once _json_map_proc_get_value has started, its out list holds none of
\* the pairs it was given, only the pairs built from the matches taken so
\* far; when it returns -1 the list is empty, whatever was built before the
\* match that failed, and when it returns 0 the list holds one pair for every
\* match; the result is the one the walk of mod_map_proc works with.
C19_AllOrNothing ==
  LET all == fr_jpath_evaluate_leaf(gv.map.lhs.type, gv.to_eval.root, gv.to_eval.jpath)
  IN  /\ gv.pc # "idle" =>
           /\ Len(gv.out) <= gv.built
           /\ \A k \in 1..Len(gv.out) :
                gv.out[k] = [da |-> gv.map.lhs.da, op |-> gv.map.op, data |-> all.head[k]]
      /\ gv.pc = "loop" => Len(gv.out) = gv.built /\ gv.built + Len(gv.values) = all.ret
      /\ gv.pc = "done" =>
           /\ gv.ret \in {0, -1}
           /\ gv.ret = -1 => gv.out = <<>>
           /\ gv.ret = 0 => Len(gv.out) = gv.built /\ gv.built = all.ret
           /\ gv.ret = json_map_proc_get_value(gv.given, gv.map, gv.to_eval).ret
           /\ gv.out = json_map_proc_get_value(gv.given, gv.map, gv.to_eval).out

C19_Witness ==
  /\ gv.pc = "done"
  /\ gv.given # <<>>
  /\ gv.built = 1
  /\ gv.ret = -1
  /\ gv.out = <<>>

(***************************************************************************)
(* Properties of jpath_validate_xlat.                                      *)
(***************************************************************************)

RECURSIVE SoloWalk(_, _, _, _)
SoloWalk(list, root, i, request) ==
  IF i > Len(list) THEN [rcode |-> "RLM_MODULE_UPDATED", request |-> request]
  ELSE IF MapBlocked(list[i]) THEN [rcode |-> "RLM_MODULE_FAIL", request |-> request]
  ELSE LET r == map_to_request(request, list[i],
                               [jpath |-> fr_jpath_parse(MapText(list[i])).head, root |-> root])
       IN  IF r.ret < 0 THEN [rcode |-> "RLM_MODULE_FAIL", request |-> request]
           ELSE SoloWalk(list, root, i + 1, r.request)

SoloResult(list, j) ==
  IF ~j.head \/ ~j.concat \/ Len(j.str) = 0 \/ json_tokener_parse_ex(j.str) = NULL
  THEN [rcode |-> "RLM_MODULE_FAIL", request |-> <<>>]
  ELSE SoloWalk(list, json_tokener_parse_ex(j.str), 1, <<>>)

\* C10: once the cache is built no step of any evaluation changes it, and in
\* every interleaving each evaluation uses for each cached map the expression
\* compiled from that map's text and returns the code and the pairs it
\* returns when run alone.
C10_SharedCacheReadOnly ==
  /\ [][inst.pc = "ok" => inst' = inst]_vars
  /\ [](\A t \in DOMAIN call :
          /\ \A i \in 1..Len(call[t].steps) :
               IsCached(maps[i]) =>
                 call[t].steps[i].jpath = fr_jpath_parse(maps[i].rhs.name).head
          /\ Done(call[t]) =>
               /\ call[t].rcode = SoloResult(maps, call[t].json).rcode
               /\ call[t].request = SoloResult(maps, call[t].json).request)

C10_Witness ==
  \E t1, t2 \in DOMAIN call :
    /\ t1 # t2
    /\ Len(maps) = 2 /\ IsCached(maps[1]) /\ IsCached(maps[2])
    /\ call[t1].pc = "walk" /\ call[t1].map = 1
    /\ call[t2].pc = "walk" /\ call[t2].map = 2
    /\ call[t1].json # call[t2].json
    /\ call[t1].request # <<>> /\ call[t2].request # <<>>

====
